---- MODULE Spec2Model ----
(***************************************************************************)
(* A model of `qsv excel` (src/cmd/excel.rs, fn run): sheet resolution,    *)
(* the dates whitelist, the per-row transcoding loop and the final row     *)
(* count.  Strings are sequences of one-character strings, so parsing,     *)
(* formatting, trimming and ordering are computed character by character.  *)
(***************************************************************************)
EXTENDS Integers, Sequences, FiniteSets, TLC

VARIABLES
    pc,                    \* position in run: "sheet", "whitelist", "rows", "done", "panic"
    fault,                 \* the panic message once pc = "panic", "none" before
    sheet_names,           \* workbook.sheet_names()
    flag_sheet,            \* args.flag_sheet
    sheet,                 \* the resolved sheet name
    flag_dates_whitelist,  \* args.flag_dates_whitelist
    whitelist_lower,
    dates_whitelist,
    all_numbers_whitelist,
    range,                 \* the rows of the selected sheet, each a sequence of cells
    flag_trim,             \* args.flag_trim
    row_idx,               \* number of rows the loop has consumed
    date_flag,
    wtr,                   \* the records handed to the CSV writer, in order
    count,                 \* u32 row counter, as two 16-bit halves
    exported               \* the number printed in the end message (count - 1)

vars == <<pc, fault, sheet_names, flag_sheet, sheet, flag_dates_whitelist,
          whitelist_lower, dates_whitelist, all_numbers_whitelist, range,
          flag_trim, row_idx, date_flag, wtr, count, exported>>

-----------------------------------------------------------------------------
(* Bounds of the explored inputs *)

MaxSheets == 3
MaxIdLen == 2
MaxWlLen == 4
MaxCols == 3
MaxRows == 3

(* Widths of the integer types the code names *)

I32Max == 2147483647
U16Max == 65535

-----------------------------------------------------------------------------
(* Characters and strings *)

Min(a, b) == IF a < b THEN a ELSE b
Max(a, b) == IF a > b THEN a ELSE b

DigitChars == <<"0", "1", "2", "3", "4", "5", "6", "7", "8", "9">>
UpperChars == <<"A", "B", "C", "D", "E", "F", "G", "H", "I", "J", "K", "L", "M",
                "N", "O", "P", "Q", "R", "S", "T", "U", "V", "W", "X", "Y", "Z">>
LowerChars == <<"a", "b", "c", "d", "e", "f", "g", "h", "i", "j", "k", "l", "m",
                "n", "o", "p", "q", "r", "s", "t", "u", "v", "w", "x", "y", "z">>

\* the characters of the model in code-point order
CharOrder == <<"\t", "\n", "\r", " ", "+", ",", "-", ".">> \o DigitChars \o <<":">>
             \o UpperChars \o LowerChars

Ord(c) == CHOOSE i \in 1..Len(CharOrder) : CharOrder[i] = c

IsDigit(c) == \E i \in 1..Len(DigitChars) : DigitChars[i] = c
DigitVal(c) == (CHOOSE i \in 1..Len(DigitChars) : DigitChars[i] = c) - 1

\* char::is_whitespace, restricted to the characters of the model
IsWhitespace(c) == c \in {" ", "\t", "\n", "\r"}

LowerChar(c) ==
    IF \E i \in 1..Len(UpperChars) : UpperChars[i] = c
    THEN LowerChars[CHOOSE i \in 1..Len(UpperChars) : UpperChars[i] = c]
    ELSE c

\* str::to_lowercase
to_lowercase(s) == [i \in 1..Len(s) |-> LowerChar(s[i])]

\* str::trim
RECURSIVE trim_start(_)
trim_start(s) ==
    IF s /= <<>> /\ IsWhitespace(s[1]) THEN trim_start(Tail(s)) ELSE s

RECURSIVE trim_end(_)
trim_end(s) ==
    IF s /= <<>> /\ IsWhitespace(s[Len(s)])
    THEN trim_end(SubSeq(s, 1, Len(s) - 1))
    ELSE s

trim(s) == trim_end(trim_start(s))

\* str::contains(&str)
contains(s, t) ==
    \E i \in 0..(Len(s) - Len(t)) : SubSeq(s, i + 1, i + Len(t)) = t

\* str::replace('\n', " ")
replace_newline(s) == [i \in 1..Len(s) |-> IF s[i] = "\n" THEN " " ELSE s[i]]

\* Ord for String: lexicographic on code points
RECURSIVE StrLess(_, _)
StrLess(a, b) ==
    IF b = <<>> THEN FALSE
    ELSE IF a = <<>> THEN TRUE
    ELSE IF a[1] /= b[1] THEN Ord(a[1]) < Ord(b[1])
    ELSE StrLess(Tail(a), Tail(b))

\* str::split(',')
RECURSIVE split_comma(_)
split_comma(s) ==
    IF \A i \in 1..Len(s) : s[i] /= ","
    THEN <<s>>
    ELSE LET j == CHOOSE i \in 1..Len(s) :
                      s[i] = "," /\ \A h \in 1..(i - 1) : s[h] /= ","
         IN  <<SubSeq(s, 1, j - 1)>> \o split_comma(SubSeq(s, j + 1, Len(s)))

-----------------------------------------------------------------------------
(* Integer parsing and formatting *)

RECURSIVE DigitsValue(_)
DigitsValue(s) ==
    IF s = <<>> THEN 0
    ELSE DigitsValue(SubSeq(s, 1, Len(s) - 1)) * 10 + DigitVal(s[Len(s)])

AllDigits(s) == s /= <<>> /\ \A i \in 1..Len(s) : IsDigit(s[i])

\* str::parse::<i32>: optional sign, at least one digit, value within i32
parse_i32(s) ==
    LET signed == s /= <<>> /\ s[1] \in {"+", "-"}
        digits == IF signed THEN Tail(s) ELSE s
        neg    == signed /\ s[1] = "-"
        mag    == IF AllDigits(digits) THEN DigitsValue(digits) ELSE 0
        val    == IF neg THEN 0 - mag ELSE mag
    IN  [ok  |-> AllDigits(digits) /\ val <= I32Max /\ val >= 0 - I32Max - 1,
         val |-> val]

\* str::parse::<u16>: optional "+", at least one digit, value within u16
parse_u16(s) ==
    LET plus   == s /= <<>> /\ s[1] = "+"
        digits == IF plus THEN Tail(s) ELSE s
        val    == IF AllDigits(digits) THEN DigitsValue(digits) ELSE 0
    IN  [ok |-> AllDigits(digits) /\ val <= U16Max, val |-> val]

\* usize::to_string
RECURSIVE to_string(_)
to_string(n) ==
    IF n < 10 THEN <<DigitChars[n + 1]>>
    ELSE to_string(n \div 10) \o <<DigitChars[(n % 10) + 1]>>

\* i64::to_string
int_to_string(i) == IF i < 0 THEN <<"-">> \o to_string(0 - i) ELSE to_string(i)

\* bool::to_string
bool_to_string(b) == IF b THEN <<"t", "r", "u", "e">> ELSE <<"f", "a", "l", "s", "e">>

-----------------------------------------------------------------------------
(* u32 arithmetic, on a value held as two 16-bit halves *)

Half == U16Max + 1

u32(n) == [hi |-> (n \div Half) % Half, lo |-> n % Half]

\* count += 1
u32_add_one(x) ==
    IF x.lo = U16Max THEN [hi |-> (x.hi + 1) % Half, lo |-> 0]
    ELSE [hi |-> x.hi, lo |-> x.lo + 1]

\* count - 1 where the subtraction wraps
u32_wrapping_sub_one(x) ==
    IF x.lo = 0 THEN [hi |-> (x.hi + U16Max) % Half, lo |-> U16Max]
    ELSE [hi |-> x.hi, lo |-> x.lo - 1]

-----------------------------------------------------------------------------
(* Sheet resolution *)

sheet_names_contains(names, id) == \E i \in 1..Len(names) : names[i] = id

unsigned_abs(i) == IF i < 0 THEN 0 - i ELSE i

abs_diff(a, b) == IF a < b THEN b - a ELSE a - b

\* a one-based reading of a non-negative index
positive_index_one_based(sheet_index) == IF sheet_index > 0 THEN sheet_index - 1 ELSE 0

\* the position used for a non-negative index
positive_index(sheet_index) == sheet_index

\* a negative index taken as a distance from the front
negative_index_from_front(num_sheets, sheet_index) ==
    Max(0, Min(num_sheets, unsigned_abs(sheet_index)))

\* the position used for a negative index
negative_index(num_sheets, sheet_index) ==
    Max(0, Min(num_sheets, abs_diff(num_sheets, unsigned_abs(sheet_index))))

\* the position the code indexes sheet_names with (zero-based), for an
\* identifier that is not a sheet name
sheet_position(names, id) ==
    LET p == parse_i32(id)
    IN  IF p.ok
        THEN IF p.val >= 0 THEN positive_index(p.val)
             ELSE negative_index(Len(names), p.val)
        ELSE 0

\* the outcome of the whole `let sheet = ...` expression
resolve(names, id) ==
    IF sheet_names_contains(names, id)
    THEN [ok |-> TRUE, sheet |-> id]
    ELSE LET pos == sheet_position(names, id)
         IN  IF pos < Len(names)
             THEN [ok |-> TRUE, sheet |-> names[pos + 1]]
             ELSE [ok |-> FALSE, sheet |-> <<>>]

ResolveSheet ==
    /\ pc = "sheet"
    /\ LET r == resolve(sheet_names, flag_sheet)
       IN  /\ pc' = IF r.ok THEN "whitelist" ELSE "panic"
           /\ fault' = IF r.ok THEN "none" ELSE "index out of bounds"
           /\ sheet' = r.sheet
    /\ UNCHANGED <<sheet_names, flag_sheet, flag_dates_whitelist, whitelist_lower,
                   dates_whitelist, all_numbers_whitelist, range, flag_trim,
                   row_idx, date_flag, wtr, count, exported>>

-----------------------------------------------------------------------------
(* The dates whitelist *)

\* the closure's test of one token: the token as split, before trimming
token_is_index(s) == parse_u16(s).ok

\* slice::sort_unstable on strings (insertion into a sorted prefix)
RECURSIVE sort_insert(_, _)
sort_insert(v, x) ==
    IF v = <<>> THEN <<x>>
    ELSE IF StrLess(x, v[1]) THEN <<x>> \o v
    ELSE <<v[1]>> \o sort_insert(Tail(v), x)

RECURSIVE sort_unstable(_)
sort_unstable(v) ==
    IF v = <<>> THEN <<>>
    ELSE sort_insert(sort_unstable(Tail(v)), v[1])

\* slice::binary_search(..).is_ok() over the half-open window [left, right)
RECURSIVE binary_search(_, _, _, _)
binary_search(v, x, left, right) ==
    IF left >= right THEN FALSE
    ELSE LET mid == left + ((right - left) \div 2)
         IN  IF StrLess(v[mid + 1], x) THEN binary_search(v, x, mid + 1, right)
             ELSE IF StrLess(x, v[mid + 1]) THEN binary_search(v, x, left, mid)
             ELSE TRUE

parsed_all_numbers(lower) ==
    LET toks == split_comma(lower)
    IN  \A i \in 1..Len(toks) : token_is_index(toks[i])

parsed_whitelist(lower) ==
    LET toks    == split_comma(lower)
        trimmed == [i \in 1..Len(toks) |-> trim(toks[i])]
    IN  IF parsed_all_numbers(lower) THEN sort_unstable(trimmed) ELSE trimmed

ParseWhitelist ==
    /\ pc = "whitelist"
    /\ whitelist_lower' = to_lowercase(flag_dates_whitelist)
    /\ all_numbers_whitelist' = parsed_all_numbers(whitelist_lower')
    /\ dates_whitelist' = parsed_whitelist(whitelist_lower')
    /\ pc' = "rows"
    /\ UNCHANGED <<fault, sheet_names, flag_sheet, sheet, flag_dates_whitelist,
                   range, flag_trim, row_idx, date_flag, wtr, count, exported>>

WordAll == <<"a", "l", "l">>
WordNone == <<"n", "o", "n", "e">>

\* the flag of the header column at zero-based position col_idx
header_flag(col_idx, col_name) ==
    IF whitelist_lower = WordAll THEN TRUE
    ELSE IF whitelist_lower = WordNone THEN FALSE
    ELSE IF all_numbers_whitelist
         THEN binary_search(dates_whitelist, to_string(col_idx), 0, Len(dates_whitelist))
         ELSE \E i \in 1..Len(dates_whitelist) :
                  contains(to_lowercase(col_name), dates_whitelist[i])

-----------------------------------------------------------------------------
(* Cells: calamine::DataType.  A float is held as its decimal expansion:   *)
(* sign, integer part and the digits after the point (none when integral). *)
(* conv tells whether calamine can convert the serial to a calendar value. *)

DataEmpty == [tag |-> "Empty"]
DataString(s) == [tag |-> "String", s |-> s]
DataFloat(f, conv) == [tag |-> "Float", f |-> f, conv |-> conv]
DataDateTime(f, conv) == [tag |-> "DateTime", f |-> f, conv |-> conv]
DataInt(i) == [tag |-> "Int", i |-> i]
DataError(e) == [tag |-> "Error", e |-> e]
DataBool(b) == [tag |-> "Bool", b |-> b]

F64(neg, int, frac) == [neg |-> neg, int |-> int, frac |-> frac]

\* f.fract() > 0.0: fract keeps the sign of f
fract_positive(f) == ~f.neg /\ f.frac /= <<>>

\* f64::to_string
float_to_string(f) ==
    (IF f.neg THEN <<"-">> ELSE <<>>) \o to_string(f.int)
        \o (IF f.frac = <<>> THEN <<>> ELSE <<".">> \o f.frac)

\* format!("{}", NaiveDate) and format!("{}", NaiveDateTime): the digits are
\* chrono's; each digit is written as the letter of its calendar field
DateText == <<"Y", "Y", "Y", "Y", "-", "M", "M", "-", "D", "D">>
DateTimeText == DateText \o <<" ", "H", "H", ":", "M", "M", ":", "S", "S">>

ErrorPrefix == <<"E", "R", "R", "O", "R", ":", " ", "C", "a", "n", "n", "o", "t", " ",
                 "c", "o", "n", "v", "e", "r", "t", " ">>

datetime_error(f) ==
    ErrorPrefix \o float_to_string(f) \o <<" ", "t", "o", " ", "d", "a", "t", "e", "t", "i", "m", "e">>

date_error(f) ==
    ErrorPrefix \o float_to_string(f) \o <<" ", "t", "o", " ", "d", "a", "t", "e">>

\* cell.as_datetime().map_or_else(..)
datetime_field(cell) == IF cell.conv THEN DateTimeText ELSE datetime_error(cell.f)

\* cell.as_date().map_or_else(..)
date_field(cell) == IF cell.conv THEN DateText ELSE date_error(cell.f)

\* cell.get_string().unwrap_or_default()
get_string(cell) == IF cell.tag = "String" THEN cell.s ELSE <<>>

\* the match on a data cell
transcode(cell, is_date) ==
    CASE cell.tag = "Empty" -> <<>>
      [] cell.tag = "String" -> cell.s
      [] cell.tag \in {"Float", "DateTime"} ->
            IF is_date
            THEN IF fract_positive(cell.f) THEN datetime_field(cell) ELSE date_field(cell)
            ELSE float_to_string(cell.f)
      [] cell.tag = "Int" -> int_to_string(cell.i)
      [] cell.tag = "Error" -> cell.e
      [] cell.tag = "Bool" -> bool_to_string(cell.b)

-----------------------------------------------------------------------------
(* The row loop *)

\* record.trim() followed by the replacement of '\n' in every field
trimmed_record(record) ==
    [c \in 1..Len(record) |-> replace_newline(trim(record[c]))]

\* a writer that keeps only the latest record
write_record_latest(w, record) == <<record>>

\* wtr.write_record
write_record(w, record) == Append(w, record)

header_record(row) == [c \in 1..Len(row) |-> get_string(row[c])]

header_flags(row) == [c \in 1..Len(row) |-> header_flag(c - 1, get_string(row[c]))]

data_record(row, flags) == [c \in 1..Len(row) |-> transcode(row[c], flags[c])]

ProcessRow ==
    /\ pc = "rows"
    /\ row_idx < Len(range)
    /\ LET row    == range[row_idx + 1]
           record == IF row_idx = 0 THEN header_record(row)
                     ELSE data_record(row, date_flag)
       IN  /\ date_flag' = IF row_idx = 0 THEN header_flags(row) ELSE date_flag
           /\ wtr' = write_record(wtr, IF flag_trim THEN trimmed_record(record)
                                       ELSE record)
    /\ count' = u32_add_one(count)
    /\ row_idx' = row_idx + 1
    /\ UNCHANGED <<pc, fault, sheet_names, flag_sheet, sheet, flag_dates_whitelist,
                   whitelist_lower, dates_whitelist, all_numbers_whitelist, range,
                   flag_trim, exported>>

\* count - 1 on a u32: a build with overflow checks panics at 0 - 1, a build
\* without them wraps
Report ==
    /\ pc = "rows"
    /\ row_idx = Len(range)
    /\ \E checked \in BOOLEAN :
          IF count = u32(0) /\ checked
          THEN /\ pc' = "panic"
               /\ fault' = "attempt to subtract with overflow"
               /\ exported' = exported
          ELSE /\ pc' = "done"
               /\ fault' = fault
               /\ exported' = u32_wrapping_sub_one(count)
    /\ UNCHANGED <<sheet_names, flag_sheet, sheet, flag_dates_whitelist,
                   whitelist_lower, dates_whitelist, all_numbers_whitelist, range,
                   flag_trim, row_idx, date_flag, wtr, count>>

Next == ResolveSheet \/ ParseWhitelist \/ ProcessRow \/ Report

-----------------------------------------------------------------------------
(* Inputs *)

SeqsUpTo(S, n) == UNION {[1..k -> S] : k \in 0..n}

NamePool == {<<"a">>, <<"0">>, <<"1">>, <<"-", "1">>}

\* sheet names are unique within a workbook
SheetSets ==
    {v \in SeqsUpTo(NamePool, MaxSheets) :
        \A i, j \in 1..Len(v) : i /= j => v[i] /= v[j]}

IdChars == {"0", "1", "2", "5", "-", "+", "a"}
Identifiers == SeqsUpTo(IdChars, MaxIdLen)

WlChars == {"0", "2", ",", " ", "d", "+"}
Whitelists == SeqsUpTo(WlChars, MaxWlLen) \cup {<<"A", "l", "l">>, WordAll, WordNone}

HeaderNames == <<<<"D", "a", "t", "e">>, <<"0">>, <<"i", "d">>, <<"x">>>>

\* a header of w text cells over one row of floats
DateSheet(w) ==
    <<[c \in 1..w |-> DataString(HeaderNames[((c - 1) % Len(HeaderNames)) + 1])],
      [c \in 1..w |-> DataFloat(F64(FALSE, c, <<"5">>), TRUE)]>>

CellPool ==
    <<DataString(<<"d">>),
      DataFloat(F64(FALSE, 1, <<"5">>), TRUE),
      DataInt(7),
      DataFloat(F64(TRUE, 1, <<"5">>), TRUE),
      DataString(<<" ", "a", "\n", "b", " ">>),
      DataFloat(F64(FALSE, 2, <<>>), FALSE),
      DataEmpty,
      DataDateTime(F64(FALSE, 3, <<"2", "5">>), FALSE),
      DataBool(TRUE),
      DataString(<<"a", "\r", "b">>),
      DataFloat(F64(FALSE, 4, <<>>), TRUE),
      DataError(<<"D", "i", "v", "0">>),
      DataInt(0 - 3)>>

\* a rectangular sheet of r rows and w columns filled row by row from the
\* pool, starting at offset o
PoolSheet(r, w, o) ==
    [i \in 1..r |-> [c \in 1..w |->
        CellPool[((o + (i - 1) * w + (c - 1)) % Len(CellPool)) + 1]]]

PoolSheets ==
    {PoolSheet(r, w, o) : r \in 0..MaxRows, w \in 1..MaxCols, o \in 0..(Len(CellPool) - 1)}

RowWhitelists == {WordAll, WordNone, <<"0">>, <<"d">>}

InitLocals ==
    /\ pc = "sheet"
    /\ fault = "none"
    /\ sheet = <<>>
    /\ whitelist_lower = <<>>
    /\ dates_whitelist = <<>>
    /\ all_numbers_whitelist = TRUE
    /\ row_idx = 0
    /\ date_flag = <<>>
    /\ wtr = <<>>
    /\ count = u32(0)
    /\ exported = u32(0)

InitSheet ==
    /\ sheet_names \in SheetSets
    /\ flag_sheet \in Identifiers
    /\ flag_dates_whitelist = <<"d">>
    /\ range = DateSheet(1)
    /\ flag_trim = FALSE
    /\ InitLocals

InitDates ==
    /\ sheet_names = <<<<"a">>>>
    /\ flag_sheet = <<"0">>
    /\ flag_dates_whitelist \in Whitelists
    /\ range \in {DateSheet(w) : w \in 1..MaxCols}
    /\ flag_trim = FALSE
    /\ InitLocals

InitRows ==
    /\ sheet_names = <<<<"a">>>>
    /\ flag_sheet = <<"0">>
    /\ flag_dates_whitelist \in RowWhitelists
    /\ range \in PoolSheets
    /\ flag_trim \in BOOLEAN
    /\ InitLocals

SpecSheet == InitSheet /\ [][Next]_vars
SpecDates == InitDates /\ [][Next]_vars
SpecRows == InitRows /\ [][Next]_vars

Init == InitSheet \/ InitDates \/ InitRows
Spec == Init /\ [][Next]_vars

TypeOK ==
    /\ pc \in {"sheet", "whitelist", "rows", "done", "panic"}
    /\ count.hi \in 0..U16Max /\ count.lo \in 0..U16Max
    /\ exported.hi \in 0..U16Max /\ exported.lo \in 0..U16Max
    /\ row_idx \in 0..Len(range)

-----------------------------------------------------------------------------
(* Properties *)

Resolved == pc /= "sheet"
NumSheets == Len(sheet_names)
NegStr(k) == <<"-">> \o to_string(k)
IsName(id) == sheet_names_contains(sheet_names, id)

\* C1 as stated: whatever the sheet names are, for 0 <= k < N resolving
\* str(k) returns names[k].
C1_IndexWhateverNames ==
    Resolved =>
        \A k \in 0..(NumSheets - 1) :
            flag_sheet = to_string(k) =>
                fault = "none" /\ sheet = sheet_names[k + 1]

\* C1 amended: for 0 <= k < N, resolving str(k) returns names[k] when str(k)
\* is not itself a sheet name, and returns the sheet named str(k) when it is.
C1_IndexUnlessName ==
    Resolved =>
        \A k \in 0..(NumSheets - 1) :
            flag_sheet = to_string(k) =>
                /\ fault = "none"
                /\ sheet = IF IsName(to_string(k)) THEN to_string(k)
                           ELSE sheet_names[k + 1]

C1_Witness ==
    /\ pc = "whitelist"
    /\ NumSheets = 3
    /\ flag_sheet = to_string(2)
    /\ ~IsName(flag_sheet)
    /\ sheet = sheet_names[3]

\* C2: for 1 <= k <= N, resolving str(-k), when it is not itself a sheet
\* name, returns names[N-k]; -1 selects the last sheet and -N the first.
C2_NegativeFromEnd ==
    Resolved =>
        \A k \in 1..NumSheets :
            (flag_sheet = NegStr(k) /\ ~IsName(flag_sheet)) =>
                fault = "none" /\ sheet = sheet_names[NumSheets - k + 1]

C2_Witness ==
    /\ pc = "whitelist"
    /\ NumSheets = 3
    /\ flag_sheet = NegStr(1)
    /\ ~IsName(flag_sheet)
    /\ sheet = sheet_names[3]

\* C3: for N > 0 and k > N, resolving str(-k), when it is not itself a sheet
\* name, does not fail and returns names[0].
C3_ClampToFirst ==
    Resolved =>
        LET p == parse_i32(flag_sheet)
        IN  (/\ NumSheets > 0
             /\ p.ok /\ p.val < 0 /\ flag_sheet = NegStr(0 - p.val)
             /\ 0 - p.val > NumSheets
             /\ ~IsName(flag_sheet)) =>
                fault = "none" /\ sheet = sheet_names[1]

IsFloatCell(cell) == cell.tag \in {"Float", "DateTime"}

DataCells == {<<i, c>> \in (2..Len(wtr)) \X (1..MaxCols) : c <= Len(range[i])}

\* C4: a Float or DateTime cell in a date column is written in the date-time
\* shape exactly when its serial has a fractional part and in the date-only
\* shape exactly when the serial is integral; in any other column it is
\* written as the decimal rendering of the serial.
C4_DateShapes ==
    \A ic \in DataCells :
        LET cell  == range[ic[1]][ic[2]]
            field == wtr[ic[1]][ic[2]]
        IN  IsFloatCell(cell) =>
                IF date_flag[ic[2]]
                THEN /\ field \in {DateTimeText, datetime_error(cell.f)}
                            <=> cell.f.frac /= <<>>
                     /\ field \in {DateText, date_error(cell.f)}
                            <=> cell.f.frac = <<>>
                ELSE field = float_to_string(cell.f)

WhitelistParsed == pc \in {"rows", "done"}
IndexSetMode ==
    /\ whitelist_lower \notin {WordAll, WordNone}
    /\ all_numbers_whitelist

\* C5: when the lowercase whitelist is neither "all" nor "none", the index
\* mode is selected exactly when every comma-separated token, after
\* trimming, parses as a non-negative integer, and the pattern mode otherwise.
C5_ModeSelection ==
    (WhitelistParsed /\ whitelist_lower \notin {WordAll, WordNone}) =>
        LET toks == split_comma(whitelist_lower)
        IN  all_numbers_whitelist
                <=> \A i \in 1..Len(toks) : parse_u16(trim(toks[i])).ok

\* C6: in index mode the date flag of column p is true exactly when p is one
\* of the integers parsed from the whitelist tokens.
C6_IndexFlags ==
    (WhitelistParsed /\ IndexSetMode /\ row_idx >= 1) =>
        \A p \in 0..(Len(range[1]) - 1) :
            date_flag[p + 1]
                <=> \E i \in 1..Len(dates_whitelist) :
                        parse_u16(dates_whitelist[i]).val = p

Assembled(record) == IF flag_trim THEN trimmed_record(record) ELSE record

\* C7: for a sheet of R >= 1 rows the run never aborts and the writer holds
\* one record per consumed row, in row order, the header first, R records at
\* the end; a failed date conversion is an inline error text in its field.
C7_RowPreservation ==
    /\ Len(wtr) = row_idx
    /\ Len(range) >= 1 => pc /= "panic"
    /\ pc = "done" => Len(wtr) = Len(range)
    /\ \A i \in 1..Len(wtr) :
          /\ Len(wtr[i]) = Len(range[i])
          /\ wtr[i] = Assembled(IF i = 1 THEN header_record(range[1])
                                ELSE data_record(range[i], date_flag))
    /\ \A ic \in DataCells :
          LET cell == range[ic[1]][ic[2]]
          IN  (IsFloatCell(cell) /\ date_flag[ic[2]] /\ ~cell.conv) =>
                  wtr[ic[1]][ic[2]] \in {datetime_error(cell.f), date_error(cell.f)}

C7_Witness ==
    /\ pc = "done"
    /\ Len(range) = 3
    /\ Len(wtr) = 3
    /\ \E ic \in DataCells :
          /\ IsFloatCell(range[ic[1]][ic[2]])
          /\ ~range[ic[1]][ic[2]].conv
          /\ wtr[ic[1]][ic[2]] = date_error(range[ic[1]][ic[2]].f)

\* C8: field i of the first record is header cell i rendered by the rules
\* used for data cells with no date interpretation.
C8_HeaderTranscoded ==
    row_idx >= 1 =>
        wtr[1] = Assembled([c \in 1..Len(range[1]) |-> transcode(range[1][c], FALSE)])

IsLineBreak(c) == c \in {"\n", "\r"}

\* C9: with trim, no written field contains a line-break character or starts
\* or ends with whitespace; without trim every field is written as transcoded.
C9_TrimmedFields ==
    \A i \in 1..Len(wtr) :
        IF flag_trim
        THEN \A c \in 1..Len(wtr[i]) :
                LET field == wtr[i][c]
                IN  /\ \A j \in 1..Len(field) : ~IsLineBreak(field[j])
                    /\ field /= <<>> =>
                          ~IsWhitespace(field[1]) /\ ~IsWhitespace(field[Len(field)])
        ELSE wtr[i] = IF i = 1 THEN header_record(range[1])
                      ELSE data_record(range[i], date_flag)

\* C10: the counter equals the number of written records, and the reported
\* count is the number of data rows written, without underflow or wrap, for
\* every sheet including one with no rows.
C10_ReportedCount ==
    /\ count = u32(Len(wtr))
    /\ fault /= "attempt to subtract with overflow"
    /\ pc = "done" => exported = u32(Max(0, Len(wtr) - 1))

====
